---- MODULE Spec2Model ----
(***************************************************************************)
(* CoopEscrow (hardhat/contracts/CoopEscrow.sol): one escrow instance, the *)
(* ERC-20 token it holds, and the block timestamp.  Every external call is *)
(* one atomic step (an EVM transaction either completes or reverts with    *)
(* all of its writes discarded); the token is a plain ERC-20 whose         *)
(* transfer fails only on an insufficient balance.  Next to it stand the    *)
(* ProjectRegistry of the same file and a second CoopEscrow instance on    *)
(* the same token.                                                         *)
(***************************************************************************)
EXTENDS Integers, FiniteSets, Sequences, TLC

\* ---- bounds of the model ----
MaxTime == 2            \* block.timestamp ranges over 0..MaxTime
MaxAmount == 2          \* largest amount argument of contribute / constructor
MaxGoal == 2            \* the non-zero _goal argument
MaxDeadline == 1        \* the _deadline argument
MaxMin == 2             \* the non-zero _minContribution argument
InitialSupply == 2      \* tokens minted to every user before deployment
MaxProjects == 2        \* createProject calls that the registry model accepts
MaxValue == 1           \* native currency held by every user, and largest msg.value

\* ---- identities ----
NoAddr == "0x0"                         \* address(0)
Escrow == "escrow"                      \* address(this)
OtherEscrow == "escrow2"                \* address of the other CoopEscrow instance
Ben == "ben"                            \* the beneficiary account
Deployer == "alice"                     \* msg.sender of the constructor
Users == {"alice", "bob", "carol"}      \* accounts that call the instance
Holders == Users \cup {Escrow, OtherEscrow, Ben}    \* accounts with a token balance

\* ---- results of a call ----
OK == "ok"
InvalidParams == "InvalidParams"
AlreadyClosed == "AlreadyClosed"
PastDeadline == "PastDeadline"
NotCreator == "NotCreator"
NotClosed == "NotClosed"
SuccessNoRefund == "SuccessNoRefund"
NoDeposit == "NoDeposit"
BelowMinimum == "BelowMinimum"
ExceedsTotal == "ExceedsTotal"
BelowGoal == "BelowGoal"
Reverted == "revert"                    \* bare revert() of claimRefund
TransferFailed == "TransferFailed"      \* SafeERC20 revert: balance too low
ReentrantCall == "ReentrancyGuardReentrantCall"     \* revert of nonReentrant

\* ---- ReentrancyGuard ----
NOT_ENTERED == "NOT_ENTERED"
ENTERED == "ENTERED"
EntryPoints == {"contribute", "finalize", "claimRefund", "refund"}
NoFrame == [op |-> "none", sender |-> NoAddr, arg |-> 0, amt |-> 0]

VARIABLES
    deployed,           \* the constructor has completed
    token, creator, beneficiary, goal, deadline, minContribution,
    closed, success, total, finalAmount, refundPool,
    deposits, refundClaimed,
    balanceOf,          \* the token's balances
    now,                \* block.timestamp
    last,               \* the latest call: entry point, caller, argument, result
    emitted,            \* the events that the latest call emitted
    refunded,           \* history: tokens paid to each user by claimRefund/refund
    claimCount,         \* history: number of claimRefund calls of each user that succeeded
    finalizeCount,      \* history: number of finalize calls that succeeded
    status,             \* ReentrancyGuard._status
    frame,              \* the call whose token transfer is in progress, if any
    nested,             \* result of the latest call made from inside that transfer
    nextId, projects,   \* ProjectRegistry storage
    registrations,      \* history: the createProject calls that succeeded, in order
    created,            \* the latest createProject call: result and returned id
    other,              \* storage of the CoopEscrow instance at OtherEscrow
    focus,              \* which of the two instances is the one at Escrow (1 or 2)
    etherOf             \* native-currency balances

config == <<deployed, token, creator, beneficiary, goal, deadline, minContribution>>
books == <<closed, success, total, finalAmount, refundPool, deposits, refundClaimed>>
history == <<refunded, claimCount, finalizeCount>>
guard == <<status, frame, nested>>
registry == <<nextId, projects, registrations, created>>
pair == <<other, focus>>
outside == <<registry, pair, etherOf>>  \* what no CoopEscrow call at Escrow touches
vars == <<config, books, balanceOf, now, last, emitted, history, guard, outside>>

RECURSIVE SumOver(_, _)
SumOver(f, S) ==
    IF S = {} THEN 0
    ELSE LET x == CHOOSE y \in S : TRUE IN f[x] + SumOver(f, S \ {x})

Call(op, sender, arg, result) ==
    [op |-> op, sender |-> sender, arg |-> arg, result |-> result]

\* fault variant: what an escrow pays out is taken from the other escrow
Moved_SharedPool(from, to, amt) ==
    IF from = to THEN balanceOf
    ELSE IF from = Escrow
         THEN [balanceOf EXCEPT ![OtherEscrow] = @ - amt, ![to] = @ + amt]
         ELSE [balanceOf EXCEPT ![from] = @ - amt, ![to] = @ + amt]

\* ERC-20 transfer of amt from one holder to another
Moved(from, to, amt) ==
    IF from = to THEN balanceOf
    ELSE [balanceOf EXCEPT ![from] = @ - amt, ![to] = @ + amt]

\* ---- events ----
Initialized(_creator, _token, _beneficiary, _goal, _deadline, _min) ==
    [name |-> "Initialized", creator |-> _creator, token |-> _token,
     beneficiary |-> _beneficiary, goal |-> _goal, deadline |-> _deadline,
     minContribution |-> _min]

Contributed(contributor, amount, totalAfter) ==
    [name |-> "Contributed", contributor |-> contributor, amount |-> amount,
     totalAfter |-> totalAfter]

Finalized(_success, _finalAmount, totalRaised) ==
    [name |-> "Finalized", success |-> _success, finalAmount |-> _finalAmount,
     totalRaised |-> totalRaised]

Refunded(user, amount) ==
    [name |-> "Refunded", user |-> user, amount |-> amount]

\* ---- ProjectRegistry ----
Project(_creator, escrow, ensName, metaURI) ==
    [creator |-> _creator, escrow |-> escrow, ensName |-> ensName, metaURI |-> metaURI]

\* the value of a mapping slot that was never written
NoProject == Project(NoAddr, NoAddr, "", "")

EscrowZero == "escrow=0"
NotFound == "not found"

\* ---- a CoopEscrow instance as one value ----
\* storage before the constructor has run
NoStorage ==
    [deployed |-> FALSE, token |-> NoAddr, creator |-> NoAddr,
     beneficiary |-> NoAddr, goal |-> 0, deadline |-> 0, minContribution |-> 0,
     closed |-> FALSE, success |-> FALSE, total |-> 0, finalAmount |-> 0,
     refundPool |-> 0,
     deposits |-> [u \in Users |-> 0], refundClaimed |-> [u \in Users |-> FALSE],
     refunded |-> [u \in Users |-> 0], claimCount |-> [u \in Users |-> 0],
     finalizeCount |-> 0]

Init ==
    /\ deployed = FALSE
    /\ token = NoAddr /\ creator = NoAddr /\ beneficiary = NoAddr
    /\ goal = 0 /\ deadline = 0 /\ minContribution = 0
    /\ closed = FALSE /\ success = FALSE
    /\ total = 0 /\ finalAmount = 0 /\ refundPool = 0
    /\ deposits = [u \in Users |-> 0]
    /\ refundClaimed = [u \in Users |-> FALSE]
    /\ balanceOf = [h \in Holders |-> IF h \in Users THEN InitialSupply ELSE 0]
    /\ now = 0
    /\ last = Call("none", NoAddr, 0, OK)
    /\ emitted = <<>>
    /\ refunded = [u \in Users |-> 0]
    /\ claimCount = [u \in Users |-> 0]
    /\ finalizeCount = 0
    /\ status = NOT_ENTERED
    /\ frame = NoFrame
    /\ nested = "none"
    /\ nextId = 0
    /\ projects = [id \in 0..(MaxProjects + 1) |-> NoProject]
    /\ registrations = <<>>
    /\ created = [result |-> "none", id |-> 0]
    /\ other = NoStorage
    /\ focus = 1
    /\ etherOf = [h \in Holders |-> IF h \in Users THEN MaxValue ELSE 0]

\* ---- constructor ----
\* fault variant: a deadline equal to the creation time is accepted
ConstructorCheck_DeadlineInclusive(sender, _token, _beneficiary, _goal, _deadline, _min, _cc) ==
    IF _token = NoAddr \/ _beneficiary = NoAddr THEN InvalidParams
    ELSE IF _goal = 0 \/ _deadline < now THEN InvalidParams
    ELSE IF _min > 0 /\ _cc > 0 /\ _cc < _min THEN InvalidParams
    ELSE IF _cc > 0 /\ balanceOf[sender] < _cc THEN TransferFailed
    ELSE OK

ConstructorCheck(sender, _token, _beneficiary, _goal, _deadline, _min, _cc) ==
    IF _token = NoAddr \/ _beneficiary = NoAddr THEN InvalidParams
    ELSE IF _goal = 0 \/ _deadline <= now THEN InvalidParams
    ELSE IF _min > 0 /\ _cc > 0 /\ _cc < _min THEN InvalidParams
    ELSE IF _cc > 0 /\ balanceOf[sender] < _cc THEN TransferFailed
    ELSE OK

constructor(sender, _token, _beneficiary, _goal, _deadline, _min, _cc) ==
    /\ ~deployed
    /\ LET r == ConstructorCheck(sender, _token, _beneficiary, _goal, _deadline, _min, _cc) IN
        /\ last' = Call("constructor", sender, _cc, r)
        /\ emitted' =
              IF r # OK THEN <<>>
              ELSE (IF _cc > 0 THEN <<Contributed(sender, _cc, _cc)>> ELSE <<>>)
                   \o <<Initialized(sender, _token, _beneficiary, _goal, _deadline, _min)>>
        /\ IF r = OK
           THEN /\ deployed' = TRUE
                /\ token' = _token
                /\ beneficiary' = _beneficiary
                /\ goal' = _goal
                /\ deadline' = _deadline
                /\ minContribution' = _min
                /\ creator' = sender
                /\ balanceOf' = Moved(sender, Escrow, _cc)
                /\ deposits' = IF _cc > 0 THEN [deposits EXCEPT ![sender] = _cc] ELSE deposits
                /\ total' = IF _cc > 0 THEN _cc ELSE total
           ELSE UNCHANGED <<config, balanceOf, deposits, total>>
    /\ UNCHANGED <<closed, success, finalAmount, refundPool, refundClaimed, now, guard, outside, history>>

\* ---- contribute ----
\* fault variant: the deadline test is missing
ContributeCheck_NoDeadline(sender, amount) ==
    IF closed THEN AlreadyClosed
    ELSE IF amount = 0 THEN InvalidParams
    ELSE IF minContribution > 0 /\ amount < minContribution THEN BelowMinimum
    ELSE IF balanceOf[sender] < amount THEN TransferFailed
    ELSE OK

\* fault variant: the minimum test uses <= instead of <
ContributeCheck_MinStrict(sender, amount) ==
    IF closed THEN AlreadyClosed
    ELSE IF now > deadline THEN PastDeadline
    ELSE IF amount = 0 THEN InvalidParams
    ELSE IF minContribution > 0 /\ amount <= minContribution THEN BelowMinimum
    ELSE IF balanceOf[sender] < amount THEN TransferFailed
    ELSE OK

\* fault variant: the minimum test is missing
ContributeCheck_NoMinimum(sender, amount) ==
    IF closed THEN AlreadyClosed
    ELSE IF now > deadline THEN PastDeadline
    ELSE IF amount = 0 THEN InvalidParams
    ELSE IF balanceOf[sender] < amount THEN TransferFailed
    ELSE OK

\* fault variant: the closed test is missing
ContributeCheck_NoClosed(sender, amount) ==
    IF now > deadline THEN PastDeadline
    ELSE IF amount = 0 THEN InvalidParams
    ELSE IF minContribution > 0 /\ amount < minContribution THEN BelowMinimum
    ELSE IF balanceOf[sender] < amount THEN TransferFailed
    ELSE OK

ContributeCheck(sender, amount) ==
    IF closed THEN AlreadyClosed
    ELSE IF now > deadline THEN PastDeadline
    ELSE IF amount = 0 THEN InvalidParams
    ELSE IF minContribution > 0 /\ amount < minContribution THEN BelowMinimum
    ELSE IF balanceOf[sender] < amount THEN TransferFailed
    ELSE OK

\* fault variant: the deposit is recorded but the aggregate is not
contribute_NoTotal(sender, amount) ==
    /\ deployed
    /\ LET r == ContributeCheck(sender, amount) IN
        /\ last' = Call("contribute", sender, amount, r)
        /\ IF r = OK
           THEN /\ balanceOf' = Moved(sender, Escrow, amount)
                /\ deposits' = [deposits EXCEPT ![sender] = @ + amount]
           ELSE UNCHANGED <<balanceOf, deposits>>
        /\ emitted' = IF r = OK THEN <<Contributed(sender, amount, total)>> ELSE <<>>
    /\ UNCHANGED <<config, closed, success, total, finalAmount, refundPool, refundClaimed, now, guard, outside, history>>

\* fault variant: the deposit is credited to the creator, not to the caller
contribute_CreditsCreator(sender, amount) ==
    /\ deployed
    /\ LET r == ContributeCheck(sender, amount) IN
        /\ last' = Call("contribute", sender, amount, r)
        /\ IF r = OK
           THEN /\ balanceOf' = Moved(sender, Escrow, amount)
                /\ deposits' = [deposits EXCEPT ![creator] = @ + amount]
                /\ total' = total + amount
           ELSE UNCHANGED <<balanceOf, deposits, total>>
        /\ emitted' = IF r = OK THEN <<Contributed(sender, amount, total')>> ELSE <<>>
    /\ UNCHANGED <<config, closed, success, finalAmount, refundPool, refundClaimed, now, guard, outside, history>>

\* fault variant: the event carries the total before the contribution
contribute_EmitsOldTotal(sender, amount) ==
    /\ deployed
    /\ LET r == ContributeCheck(sender, amount) IN
        /\ last' = Call("contribute", sender, amount, r)
        /\ IF r = OK
           THEN /\ balanceOf' = Moved(sender, Escrow, amount)
                /\ deposits' = [deposits EXCEPT ![sender] = @ + amount]
                /\ total' = total + amount
           ELSE UNCHANGED <<balanceOf, deposits, total>>
        /\ emitted' = IF r = OK THEN <<Contributed(sender, amount, total)>> ELSE <<>>
    /\ UNCHANGED <<config, closed, success, finalAmount, refundPool, refundClaimed, now, guard, outside, history>>

contribute(sender, amount) ==
    /\ deployed
    /\ LET r == ContributeCheck(sender, amount) IN
        /\ last' = Call("contribute", sender, amount, r)
        /\ IF r = OK
           THEN /\ balanceOf' = Moved(sender, Escrow, amount)
                /\ deposits' = [deposits EXCEPT ![sender] = @ + amount]
                /\ total' = total + amount
           ELSE UNCHANGED <<balanceOf, deposits, total>>
        /\ emitted' = IF r = OK THEN <<Contributed(sender, amount, total')>> ELSE <<>>
    /\ UNCHANGED <<config, closed, success, finalAmount, refundPool, refundClaimed, now, guard, outside, history>>

\* ---- finalize ----
\* fault variant: the total test uses >= instead of >
FinalizeCheck_TotalInclusive(sender, _finalAmount) ==
    IF sender # creator THEN NotCreator
    ELSE IF closed THEN AlreadyClosed
    ELSE IF _finalAmount >= total THEN ExceedsTotal
    ELSE IF _finalAmount < goal THEN BelowGoal
    ELSE IF balanceOf[Escrow] < _finalAmount THEN TransferFailed
    ELSE OK

\* fault variant: the closed test is missing
FinalizeCheck_NoClosed(sender, _finalAmount) ==
    IF sender # creator THEN NotCreator
    ELSE IF _finalAmount > total THEN ExceedsTotal
    ELSE IF _finalAmount < goal THEN BelowGoal
    ELSE IF balanceOf[Escrow] < _finalAmount THEN TransferFailed
    ELSE OK

\* fault variant: the closed test comes before the creator test
FinalizeCheck_ClosedFirst(sender, _finalAmount) ==
    IF closed THEN AlreadyClosed
    ELSE IF sender # creator THEN NotCreator
    ELSE IF _finalAmount > total THEN ExceedsTotal
    ELSE IF _finalAmount < goal THEN BelowGoal
    ELSE IF balanceOf[Escrow] < _finalAmount THEN TransferFailed
    ELSE OK

\* fault variant: the goal test is missing
FinalizeCheck_NoGoal(sender, _finalAmount) ==
    IF sender # creator THEN NotCreator
    ELSE IF closed THEN AlreadyClosed
    ELSE IF _finalAmount > total THEN ExceedsTotal
    ELSE IF balanceOf[Escrow] < _finalAmount THEN TransferFailed
    ELSE OK

\* fault variant: the goal test looks at total instead of _finalAmount
FinalizeCheck_GoalOnTotal(sender, _finalAmount) ==
    IF sender # creator THEN NotCreator
    ELSE IF closed THEN AlreadyClosed
    ELSE IF _finalAmount > total THEN ExceedsTotal
    ELSE IF total < goal THEN BelowGoal
    ELSE IF balanceOf[Escrow] < _finalAmount THEN TransferFailed
    ELSE OK

\* fault variant: the creator cannot finalize before the deadline has passed
FinalizeCheck_AfterDeadlineOnly(sender, _finalAmount) ==
    IF sender # creator THEN NotCreator
    ELSE IF closed THEN AlreadyClosed
    ELSE IF now <= deadline THEN Reverted
    ELSE IF _finalAmount > total THEN ExceedsTotal
    ELSE IF _finalAmount < goal THEN BelowGoal
    ELSE IF balanceOf[Escrow] < _finalAmount THEN TransferFailed
    ELSE OK

\* fault variant: the goal test comes before the total test
FinalizeCheck_GoalFirst(sender, _finalAmount) ==
    IF sender # creator THEN NotCreator
    ELSE IF closed THEN AlreadyClosed
    ELSE IF _finalAmount < goal THEN BelowGoal
    ELSE IF _finalAmount > total THEN ExceedsTotal
    ELSE IF balanceOf[Escrow] < _finalAmount THEN TransferFailed
    ELSE OK

\* fault variant: a closed instance that still holds tokens can be finalized
\* again
FinalizeCheck_SecondPayout(sender, _finalAmount) ==
    IF sender # creator THEN NotCreator
    ELSE IF closed /\ balanceOf[Escrow] = 0 THEN AlreadyClosed
    ELSE IF _finalAmount > total THEN ExceedsTotal
    ELSE IF _finalAmount < goal THEN BelowGoal
    ELSE IF balanceOf[Escrow] < _finalAmount THEN TransferFailed
    ELSE OK

FinalizeCheck(sender, _finalAmount) ==
    IF sender # creator THEN NotCreator
    ELSE IF closed THEN AlreadyClosed
    ELSE IF _finalAmount > total THEN ExceedsTotal
    ELSE IF _finalAmount < goal THEN BelowGoal
    ELSE IF balanceOf[Escrow] < _finalAmount THEN TransferFailed
    ELSE OK

\* fault variant: closing the instance moves the deadline to the closing time
finalize_MovesDeadline(sender, _finalAmount) ==
    /\ deployed
    /\ LET r == FinalizeCheck(sender, _finalAmount) IN
        /\ last' = Call("finalize", sender, _finalAmount, r)
        /\ IF r = OK
           THEN /\ closed' = TRUE
                /\ finalAmount' = _finalAmount
                /\ success' = TRUE
                /\ deadline' = now
                /\ balanceOf' = Moved(Escrow, beneficiary, _finalAmount)
                /\ refundPool' = total - _finalAmount
                /\ finalizeCount' = finalizeCount + 1
           ELSE UNCHANGED <<closed, finalAmount, success, deadline, balanceOf,
                            refundPool, finalizeCount>>
        /\ emitted' = IF r = OK THEN <<Finalized(success', _finalAmount, total)>> ELSE <<>>
    /\ UNCHANGED <<deployed, token, creator, beneficiary, goal, minContribution,
                   total, deposits, refundClaimed, now, guard, outside, refunded, claimCount>>

finalize(sender, _finalAmount) ==
    /\ deployed
    /\ LET r == FinalizeCheck(sender, _finalAmount) IN
        /\ last' = Call("finalize", sender, _finalAmount, r)
        /\ IF r = OK
           THEN /\ closed' = TRUE
                /\ finalAmount' = _finalAmount
                /\ success' = TRUE
                /\ balanceOf' = Moved(Escrow, beneficiary, _finalAmount)
                /\ refundPool' = total - _finalAmount
                /\ finalizeCount' = finalizeCount + 1
           ELSE UNCHANGED <<closed, finalAmount, success, balanceOf, refundPool, finalizeCount>>
        /\ emitted' = IF r = OK THEN <<Finalized(success', _finalAmount, total)>> ELSE <<>>
    /\ UNCHANGED <<config, total, deposits, refundClaimed, now, guard, outside, refunded, claimCount>>

\* ---- claimRefund ----
\* fault variant: the share is taken over finalAmount instead of total
ProportionalRefund_OverFinal(userDeposit) ==
    IF refundPool > 0 /\ total > 0
    THEN (userDeposit * refundPool) \div finalAmount
    ELSE 0

\* fault variant: the division comes before the multiplication
ProportionalRefund_DivideFirst(userDeposit) ==
    IF refundPool > 0 /\ total > 0
    THEN (userDeposit \div total) * refundPool
    ELSE 0

\* fault variant: the division rounds up
ProportionalRefund_RoundsUp(userDeposit) ==
    IF refundPool > 0 /\ total > 0
    THEN (userDeposit * refundPool + total - 1) \div total
    ELSE 0

\* fault variant: the share is taken of what the escrow still holds
ProportionalRefund_OverBalance(userDeposit) ==
    IF refundPool > 0 /\ total > 0
    THEN (userDeposit * balanceOf[Escrow]) \div total
    ELSE 0

ProportionalRefund(userDeposit) ==
    IF refundPool > 0 /\ total > 0
    THEN (userDeposit * refundPool) \div total
    ELSE 0

\* fault variant: the refundClaimed test is missing
ClaimRefundCheck_NoClaimed(sender) ==
    IF ~closed THEN NotClosed
    ELSE IF ~success THEN Reverted
    ELSE IF deposits[sender] = 0 THEN NoDeposit
    ELSE IF balanceOf[Escrow] < ProportionalRefund(deposits[sender]) THEN TransferFailed
    ELSE OK

\* fault variant: the zero-deposit test is missing
ClaimRefundCheck_NoDepositTest(sender) ==
    IF ~closed THEN NotClosed
    ELSE IF ~success THEN Reverted
    ELSE IF refundClaimed[sender] THEN NoDeposit
    ELSE IF balanceOf[Escrow] < ProportionalRefund(deposits[sender]) THEN TransferFailed
    ELSE OK

\* fault variant: a refund that rounds to 0 is refused
ClaimRefundCheck_ZeroRefundFails(sender) ==
    IF ~closed THEN NotClosed
    ELSE IF ~success THEN Reverted
    ELSE IF refundClaimed[sender] THEN NoDeposit
    ELSE IF deposits[sender] = 0 THEN NoDeposit
    ELSE IF ProportionalRefund(deposits[sender]) = 0 THEN NoDeposit
    ELSE IF balanceOf[Escrow] < ProportionalRefund(deposits[sender]) THEN TransferFailed
    ELSE OK

ClaimRefundCheck(sender) ==
    IF ~closed THEN NotClosed
    ELSE IF ~success THEN Reverted
    ELSE IF refundClaimed[sender] THEN NoDeposit
    ELSE IF deposits[sender] = 0 THEN NoDeposit
    ELSE IF balanceOf[Escrow] < ProportionalRefund(deposits[sender]) THEN TransferFailed
    ELSE OK

\* fault variant: a caller without a deposit is marked as claimed and the
\* call returns instead of reverting
claimRefund_MarksOnFailure(sender) ==
    /\ deployed
    /\ LET r == ClaimRefundCheck(sender)
           refundAmount == ProportionalRefund(deposits[sender]) IN
        /\ last' = Call("claimRefund", sender, 0, r)
        /\ emitted' = IF r = OK /\ refundAmount > 0
                      THEN <<Refunded(sender, refundAmount)>> ELSE <<>>
        /\ IF r = OK
           THEN /\ refundClaimed' = [refundClaimed EXCEPT ![sender] = TRUE]
                /\ balanceOf' = Moved(Escrow, sender, refundAmount)
                /\ refunded' = [refunded EXCEPT ![sender] = @ + refundAmount]
                /\ claimCount' = [claimCount EXCEPT ![sender] = @ + 1]
           ELSE /\ refundClaimed' = IF closed /\ deposits[sender] = 0
                                    THEN [refundClaimed EXCEPT ![sender] = TRUE]
                                    ELSE refundClaimed
                /\ UNCHANGED <<balanceOf, refunded, claimCount>>
    /\ UNCHANGED <<config, closed, success, total, finalAmount, refundPool, deposits, now, guard, outside, finalizeCount>>

\* fault variant: the refund is taken off the caller's deposit and the total
claimRefund_Deducts(sender) ==
    /\ deployed
    /\ LET r == ClaimRefundCheck(sender)
           refundAmount == ProportionalRefund(deposits[sender]) IN
        /\ last' = Call("claimRefund", sender, 0, r)
        /\ emitted' = IF r = OK /\ refundAmount > 0
                      THEN <<Refunded(sender, refundAmount)>> ELSE <<>>
        /\ IF r = OK
           THEN /\ refundClaimed' = [refundClaimed EXCEPT ![sender] = TRUE]
                /\ balanceOf' = Moved(Escrow, sender, refundAmount)
                /\ refunded' = [refunded EXCEPT ![sender] = @ + refundAmount]
                /\ claimCount' = [claimCount EXCEPT ![sender] = @ + 1]
                /\ deposits' = [deposits EXCEPT ![sender] = @ - refundAmount]
                /\ total' = total - refundAmount
           ELSE UNCHANGED <<refundClaimed, balanceOf, refunded, claimCount, deposits, total>>
    /\ UNCHANGED <<config, closed, success, finalAmount, refundPool, now, guard, outside, finalizeCount>>

claimRefund(sender) ==
    /\ deployed
    /\ LET r == ClaimRefundCheck(sender)
           refundAmount == ProportionalRefund(deposits[sender]) IN
        /\ last' = Call("claimRefund", sender, 0, r)
        /\ emitted' = IF r = OK /\ refundAmount > 0
                      THEN <<Refunded(sender, refundAmount)>> ELSE <<>>
        /\ IF r = OK
           THEN /\ refundClaimed' = [refundClaimed EXCEPT ![sender] = TRUE]
                /\ balanceOf' = Moved(Escrow, sender, refundAmount)
                /\ refunded' = [refunded EXCEPT ![sender] = @ + refundAmount]
                /\ claimCount' = [claimCount EXCEPT ![sender] = @ + 1]
           ELSE UNCHANGED <<refundClaimed, balanceOf, refunded, claimCount>>
    /\ UNCHANGED <<config, closed, success, total, finalAmount, refundPool, deposits, now, guard, outside, finalizeCount>>

\* ---- refund (legacy full refund) ----
\* fault variant: the success test is missing
RefundCheck_NoSuccessTest(sender) ==
    IF ~closed THEN NotClosed
    ELSE IF deposits[sender] = 0 THEN NoDeposit
    ELSE IF balanceOf[Escrow] < deposits[sender] THEN TransferFailed
    ELSE OK

\* fault variant: refund() is open once the deadline has passed below the goal
RefundCheck_OpenAfterDeadline(sender) ==
    IF success THEN SuccessNoRefund
    ELSE IF ~(now > deadline /\ total < goal) THEN NotClosed
    ELSE IF deposits[sender] = 0 THEN NoDeposit
    ELSE IF balanceOf[Escrow] < deposits[sender] THEN TransferFailed
    ELSE OK

RefundCheck(sender) ==
    IF ~closed THEN NotClosed
    ELSE IF success THEN SuccessNoRefund
    ELSE IF deposits[sender] = 0 THEN NoDeposit
    ELSE IF balanceOf[Escrow] < deposits[sender] THEN TransferFailed
    ELSE OK

refund(sender) ==
    /\ deployed
    /\ LET r == RefundCheck(sender)
           amt == deposits[sender] IN
        /\ last' = Call("refund", sender, 0, r)
        /\ emitted' = IF r = OK THEN <<Refunded(sender, amt)>> ELSE <<>>
        /\ IF r = OK
           THEN /\ deposits' = [deposits EXCEPT ![sender] = 0]
                /\ balanceOf' = Moved(Escrow, sender, amt)
                /\ refunded' = [refunded EXCEPT ![sender] = @ + amt]
           ELSE UNCHANGED <<deposits, balanceOf, refunded>>
    /\ UNCHANGED <<config, closed, success, total, finalAmount, refundPool, refundClaimed, now, guard, outside, claimCount, finalizeCount>>

\* ---- views ----
isOpen == ~closed /\ now <= deadline

\* fault variant: the caller is not looked at
canFinalize_AnyCaller(sender) == ~closed /\ total >= goal

canFinalize(sender) == ~closed /\ sender = creator /\ total >= goal

\* fault variant: the refundClaimed test is missing
calculateRefund_IgnoresClaimed(user) ==
    IF ~closed \/ ~success \/ deposits[user] = 0 THEN 0
    ELSE IF refundPool = 0 \/ total = 0 THEN 0
    ELSE (deposits[user] * refundPool) \div total

calculateRefund(user) ==
    IF ~closed \/ ~success \/ refundClaimed[user] \/ deposits[user] = 0 THEN 0
    ELSE IF refundPool = 0 \/ total = 0 THEN 0
    ELSE (deposits[user] * refundPool) \div total

RefundStatus(hasClaimed, refundAmount, originalDeposit) ==
    [hasClaimed |-> hasClaimed, refundAmount |-> refundAmount,
     originalDeposit |-> originalDeposit]

\* fault variant: the success branch derives hasClaimed from the deposit
getRefundStatus_DepositFlag(user) ==
    LET originalDeposit == deposits[user] IN
        LET hasClaimed == (originalDeposit = 0) IN
            IF success
            THEN RefundStatus(hasClaimed,
                              IF hasClaimed THEN 0 ELSE calculateRefund(user),
                              originalDeposit)
            ELSE RefundStatus(hasClaimed,
                              IF hasClaimed THEN 0 ELSE originalDeposit,
                              originalDeposit)

getRefundStatus(user) ==
    LET originalDeposit == deposits[user] IN
        IF success
        THEN LET hasClaimed == refundClaimed[user] IN
                RefundStatus(hasClaimed,
                             IF hasClaimed THEN 0 ELSE calculateRefund(user),
                             originalDeposit)
        ELSE LET hasClaimed == (originalDeposit = 0) IN
                RefundStatus(hasClaimed,
                             IF hasClaimed THEN 0 ELSE originalDeposit,
                             originalDeposit)

\* ---- the chain's clock ----
Tick ==
    /\ status = NOT_ENTERED
    /\ now < MaxTime
    /\ now' = now + 1
    /\ UNCHANGED <<config, books, balanceOf, last, emitted, history, guard, outside>>

Deploy ==
    \E t \in {NoAddr, "token"}, b \in {NoAddr, Ben}, g \in {0, MaxGoal},
       d \in {MaxDeadline}, m \in {0, MaxMin}, cc \in 0..MaxAmount :
        constructor(Deployer, t, b, g, d, m, cc)

Contribute == \E u \in Users, a \in 0..MaxAmount : contribute(u, a)

\* finalize arguments: everything up to one more than the pool holds
FinalArgs == 0..(total + 1)

Finalize == \E u \in Users, x \in FinalArgs : finalize(u, x)

ClaimRefund == \E u \in Users : claimRefund(u)

Refund == \E u \in Users : refund(u)

Next == Deploy \/ Contribute \/ Finalize \/ ClaimRefund \/ Refund \/ Tick

Spec == Init /\ [][Next]_vars

(***************************************************************************)
(* The same entry points with the external token call made visible: a call *)
(* that passes its checks stops at safeTransfer / safeTransferFrom with    *)
(* the writes made so far, the token runs (and may call back), and the     *)
(* call then finishes with the writes that follow the transfer.            *)
(***************************************************************************)
Frame(op, sender, arg, amt) ==
    [op |-> op, sender |-> sender, arg |-> arg, amt |-> amt]

\* nonReentrant entered, transfer invoked
Entered(op, sender, arg, amt) ==
    /\ status' = ENTERED
    /\ frame' = Frame(op, sender, arg, amt)
    /\ UNCHANGED <<last, emitted, nested, outside>>

\* the call reverted before its transfer
RevertedWith(op, sender, arg, r) ==
    /\ last' = Call(op, sender, arg, r)
    /\ emitted' = <<>>
    /\ UNCHANGED <<config, books, balanceOf, now, history, guard, outside>>

enterContribute(sender, amount) ==
    /\ deployed /\ status = NOT_ENTERED
    /\ LET r == ContributeCheck(sender, amount) IN
        IF r = OK
        THEN /\ Entered("contribute", sender, amount, amount)
             /\ UNCHANGED <<config, books, balanceOf, now, history>>
        ELSE RevertedWith("contribute", sender, amount, r)

enterFinalize(sender, _finalAmount) ==
    /\ deployed /\ status = NOT_ENTERED
    /\ LET r == FinalizeCheck(sender, _finalAmount) IN
        IF r = OK
        THEN /\ closed' = TRUE
             /\ finalAmount' = _finalAmount
             /\ success' = TRUE
             /\ Entered("finalize", sender, _finalAmount, _finalAmount)
             /\ UNCHANGED <<config, total, refundPool, deposits, refundClaimed,
                            balanceOf, now, history>>
        ELSE RevertedWith("finalize", sender, _finalAmount, r)

enterClaimRefund(sender) ==
    /\ deployed /\ status = NOT_ENTERED
    /\ LET r == ClaimRefundCheck(sender)
           refundAmount == ProportionalRefund(deposits[sender]) IN
        IF r = OK
        THEN /\ refundClaimed' = [refundClaimed EXCEPT ![sender] = TRUE]
             /\ UNCHANGED <<config, closed, success, total, finalAmount, refundPool,
                            deposits, balanceOf, now, refunded, finalizeCount>>
             /\ IF refundAmount > 0
                THEN /\ Entered("claimRefund", sender, 0, refundAmount)
                     /\ UNCHANGED claimCount
                ELSE /\ last' = Call("claimRefund", sender, 0, OK)
                     /\ emitted' = <<>>
                     /\ claimCount' = [claimCount EXCEPT ![sender] = @ + 1]
                     /\ UNCHANGED <<guard, outside>>
        ELSE RevertedWith("claimRefund", sender, 0, r)

enterRefund(sender) ==
    /\ deployed /\ status = NOT_ENTERED
    /\ LET r == RefundCheck(sender) IN
        IF r = OK
        THEN /\ deposits' = [deposits EXCEPT ![sender] = 0]
             /\ Entered("refund", sender, 0, deposits[sender])
             /\ UNCHANGED <<config, closed, success, total, finalAmount, refundPool,
                            refundClaimed, balanceOf, now, history>>
        ELSE RevertedWith("refund", sender, 0, r)

\* the transfer returns and the call runs to its end
transferReturns ==
    /\ status = ENTERED
    /\ status' = NOT_ENTERED
    /\ frame' = NoFrame
    /\ nested' = "none"
    /\ last' = Call(frame.op, frame.sender, frame.arg, OK)
    /\ UNCHANGED <<config, now, outside>>
    /\ CASE frame.op = "contribute" ->
              /\ balanceOf' = Moved(frame.sender, Escrow, frame.amt)
              /\ deposits' = [deposits EXCEPT ![frame.sender] = @ + frame.amt]
              /\ total' = total + frame.amt
              /\ emitted' = <<Contributed(frame.sender, frame.amt, total')>>
              /\ UNCHANGED <<closed, success, finalAmount, refundPool,
                             refundClaimed, history>>
         [] frame.op = "finalize" ->
              /\ balanceOf' = Moved(Escrow, beneficiary, frame.amt)
              /\ refundPool' = total - frame.amt
              /\ emitted' = <<Finalized(success, frame.amt, total)>>
              /\ finalizeCount' = finalizeCount + 1
              /\ UNCHANGED <<closed, success, total, finalAmount, deposits,
                             refundClaimed, refunded, claimCount>>
         [] frame.op = "claimRefund" ->
              /\ balanceOf' = Moved(Escrow, frame.sender, frame.amt)
              /\ refunded' = [refunded EXCEPT ![frame.sender] = @ + frame.amt]
              /\ claimCount' = [claimCount EXCEPT ![frame.sender] = @ + 1]
              /\ emitted' = <<Refunded(frame.sender, frame.amt)>>
              /\ UNCHANGED <<books, finalizeCount>>
         [] OTHER ->
              /\ balanceOf' = Moved(Escrow, frame.sender, frame.amt)
              /\ refunded' = [refunded EXCEPT ![frame.sender] = @ + frame.amt]
              /\ emitted' = <<Refunded(frame.sender, frame.amt)>>
              /\ UNCHANGED <<books, claimCount, finalizeCount>>

\* fault variant: claimRefund carries no nonReentrant modifier
Guarded_ClaimRefundOpen(op) == op \in EntryPoints \ {"claimRefund"}

\* the entry points that carry the nonReentrant modifier
Guarded(op) == op \in EntryPoints

\* a call made by the token, or by a party it calls, while the transfer runs
nestedCall(op, sender, arg) ==
    /\ deployed /\ status = ENTERED
    /\ IF Guarded(op)
       THEN /\ nested' = ReentrantCall
            /\ UNCHANGED <<config, books, balanceOf, now, last, emitted, history,
                           status, frame, outside>>
       ELSE CASE op = "contribute" -> contribute(sender, arg)
              [] op = "finalize" -> finalize(sender, arg)
              [] op = "claimRefund" -> claimRefund(sender)
              [] OTHER -> refund(sender)

EnterContribute == \E u \in Users, a \in 0..MaxAmount : enterContribute(u, a)

EnterFinalize == \E u \in Users, x \in FinalArgs : enterFinalize(u, x)

EnterClaimRefund == \E u \in Users : enterClaimRefund(u)

EnterRefund == \E u \in Users : enterRefund(u)

\* arguments of a nested call: none and the largest amount
NestedArgs == {0, MaxAmount}

NestedCall ==
    \E op \in EntryPoints, u \in Users, a \in NestedArgs : nestedCall(op, u, a)

TransferNext ==
    \/ Deploy \/ EnterContribute \/ EnterFinalize \/ EnterClaimRefund
    \/ EnterRefund \/ transferReturns \/ NestedCall \/ Tick

TransferSpec == Init /\ [][TransferNext]_vars

(***************************************************************************)
(* ProjectRegistry: the directory of escrow addresses.                     *)
(***************************************************************************)
\* fault variant: the identifier is taken before the increment (id = nextId++)
createProject_PostIncrement(sender, ensName, escrow, metaURI) ==
    /\ nextId < MaxProjects
    /\ IF escrow = NoAddr
       THEN /\ created' = [result |-> EscrowZero, id |-> 0]
            /\ UNCHANGED <<nextId, projects, registrations>>
       ELSE LET id == nextId IN
            /\ nextId' = nextId + 1
            /\ projects' = [projects EXCEPT
                               ![id] = Project(sender, escrow, ensName, metaURI)]
            /\ registrations' =
                  Append(registrations, Project(sender, escrow, ensName, metaURI))
            /\ created' = [result |-> OK, id |-> id]
    /\ UNCHANGED <<config, books, balanceOf, now, last, emitted, history, guard, pair, etherOf>>

createProject(sender, ensName, escrow, metaURI) ==
    /\ nextId < MaxProjects
    /\ IF escrow = NoAddr
       THEN /\ created' = [result |-> EscrowZero, id |-> 0]
            /\ UNCHANGED <<nextId, projects, registrations>>
       ELSE LET id == nextId + 1 IN
            /\ nextId' = id
            /\ projects' = [projects EXCEPT
                               ![id] = Project(sender, escrow, ensName, metaURI)]
            /\ registrations' =
                  Append(registrations, Project(sender, escrow, ensName, metaURI))
            /\ created' = [result |-> OK, id |-> id]
    /\ UNCHANGED <<config, books, balanceOf, now, last, emitted, history, guard, pair, etherOf>>

\* fault variant: the require is missing
getProject_NoRequire(id) ==
    LET p == projects[id] IN [result |-> OK, project |-> p]

getProject(id) ==
    LET p == projects[id] IN
        IF p.escrow # NoAddr
        THEN [result |-> OK, project |-> p]
        ELSE [result |-> NotFound, project |-> NoProject]

Names == {"solar.eth", "wind.eth"}
MetaURIs == {"ipfs://meta"}

CreateProject ==
    \E u \in Users, n \in Names, e \in {NoAddr, Escrow, OtherEscrow}, m \in MetaURIs :
        createProject(u, n, e, m)

RegistryNext == CreateProject

RegistrySpec == Init /\ [][RegistryNext]_vars

(***************************************************************************)
(* Two CoopEscrow instances on one token.  The entry points above run on   *)
(* the instance at Escrow; Switch makes the other instance the one that is *)
(* called next, by exchanging the two storages and the two addresses.      *)
(***************************************************************************)
Snapshot ==
    [deployed |-> deployed, token |-> token, creator |-> creator,
     beneficiary |-> beneficiary, goal |-> goal, deadline |-> deadline,
     minContribution |-> minContribution,
     closed |-> closed, success |-> success, total |-> total,
     finalAmount |-> finalAmount, refundPool |-> refundPool,
     deposits |-> deposits, refundClaimed |-> refundClaimed,
     refunded |-> refunded, claimCount |-> claimCount,
     finalizeCount |-> finalizeCount]

Switch ==
    /\ status = NOT_ENTERED
    /\ other' = Snapshot
    /\ deployed' = other.deployed
    /\ token' = other.token
    /\ creator' = other.creator
    /\ beneficiary' = other.beneficiary
    /\ goal' = other.goal
    /\ deadline' = other.deadline
    /\ minContribution' = other.minContribution
    /\ closed' = other.closed
    /\ success' = other.success
    /\ total' = other.total
    /\ finalAmount' = other.finalAmount
    /\ refundPool' = other.refundPool
    /\ deposits' = other.deposits
    /\ refundClaimed' = other.refundClaimed
    /\ refunded' = other.refunded
    /\ claimCount' = other.claimCount
    /\ finalizeCount' = other.finalizeCount
    /\ balanceOf' = [balanceOf EXCEPT ![Escrow] = balanceOf[OtherEscrow],
                                      ![OtherEscrow] = balanceOf[Escrow]]
    /\ etherOf' = [etherOf EXCEPT ![Escrow] = etherOf[OtherEscrow],
                                  ![OtherEscrow] = etherOf[Escrow]]
    /\ focus' = 3 - focus
    /\ UNCHANGED <<now, last, emitted, guard, registry>>

\* both instances are deployed by the same creator with the same parameters
PairDeploy == constructor(Deployer, "token", Ben, MaxGoal, MaxDeadline, 0, 0)

\* the contributors that the two instances share
Backers == {Deployer, "bob"}

PairContribute == \E u \in Backers, a \in 1..MaxAmount : contribute(u, a)

\* the creator pays out the goal or everything
PairFinalize == \E x \in {goal, total} : finalize(creator, x)

PairClaimRefund == \E u \in Backers : claimRefund(u)

PairNext == PairDeploy \/ PairContribute \/ PairFinalize \/ PairClaimRefund \/ Switch

PairSpec == Init /\ [][PairNext]_vars

(***************************************************************************)
(* Native currency sent to the instance: a plain transfer runs receive(),  *)
(* a call of a function the contract does not define runs fallback().      *)
(***************************************************************************)
\* fault variant: receive() has an empty body and keeps the payment
receive_Accepts(sender, value) ==
    /\ deployed /\ status = NOT_ENTERED
    /\ value <= etherOf[sender]
    /\ last' = Call("receive", sender, value, OK)
    /\ emitted' = <<>>
    /\ etherOf' = [etherOf EXCEPT ![sender] = @ - value, ![Escrow] = @ + value]
    /\ UNCHANGED <<config, books, balanceOf, now, history, guard, registry, pair>>

receive(sender, value) ==
    /\ deployed /\ status = NOT_ENTERED
    /\ value <= etherOf[sender]
    /\ last' = Call("receive", sender, value, Reverted)
    /\ emitted' = <<>>
    /\ UNCHANGED <<config, books, balanceOf, now, history, guard, outside>>

fallback(sender, value) ==
    /\ deployed /\ status = NOT_ENTERED
    /\ value <= etherOf[sender]
    /\ last' = Call("fallback", sender, value, Reverted)
    /\ emitted' = <<>>
    /\ UNCHANGED <<config, books, balanceOf, now, history, guard, outside>>

Receive == \E u \in Users, v \in 0..MaxValue : receive(u, v)

Fallback == \E u \in Users, v \in 0..MaxValue : fallback(u, v)

NativeNext ==
    \/ PairDeploy \/ PairContribute \/ PairFinalize \/ PairClaimRefund
    \/ Receive \/ Fallback \/ Tick

NativeSpec == Init /\ [][NativeNext]_vars

TypeOK ==
    /\ deployed \in BOOLEAN /\ closed \in BOOLEAN /\ success \in BOOLEAN
    /\ total \in Nat /\ finalAmount \in Nat /\ refundPool \in Nat
    /\ \A u \in Users : deposits[u] \in Nat /\ refundClaimed[u] \in BOOLEAN
    /\ \A h \in Holders : balanceOf[h] \in Nat
    /\ now \in 0..MaxTime
    /\ status \in {NOT_ENTERED, ENTERED}
    /\ (status = ENTERED) <=> (frame.op \in EntryPoints)

(***************************************************************************)
(* Properties                                                              *)
(***************************************************************************)
Depositors == {u \in Users : deposits[u] > 0}

\* what a call leaves alone when it changes nothing
Untouched == UNCHANGED <<config, books, balanceOf, history>>

\* the step is a call of the entry point, by last'.sender with last'.arg
ContributeStep == last'.op = "contribute" /\ contribute(last'.sender, last'.arg)
FinalizeStep == last'.op = "finalize" /\ finalize(last'.sender, last'.arg)
ClaimRefundStep == last'.op = "claimRefund" /\ claimRefund(last'.sender)
RefundStep == last'.op = "refund" /\ refund(last'.sender)
CallStep == ContributeStep \/ FinalizeStep \/ ClaimRefundStep \/ RefundStep

\* C1  Conservation: in every reachable state total equals the sum of
\* deposits[c] over all contributors c.
C1_Conservation == total = SumOver(deposits, Users)

\* reached: a closed instance with two depositors, one of whom has claimed
C1_Witness ==
    /\ closed
    /\ Cardinality(Depositors) >= 2
    /\ \E u \in Depositors : refundClaimed[u]

\* some call of some entry point would succeed in the current state
SomeCallSucceeds ==
    \/ \E u \in Users, a \in 0..MaxAmount : ContributeCheck(u, a) = OK
    \/ \E u \in Users, x \in FinalArgs : FinalizeCheck(u, x) = OK
    \/ \E u \in Users : ClaimRefundCheck(u) = OK
    \/ \E u \in Users : RefundCheck(u) = OK

\* C2  Goal not met: once the deadline has passed with total below goal,
\* every contributor with a positive deposit has a sequence of calls ending
\* in refund() that returns the full deposit.  Stated on states: such a
\* contributor either holds the deposit again or some call can still succeed
\* (the first call of that sequence); when every call fails, no sequence of
\* calls leaves the state and the deposit stays in the escrow.
C2_FullRefundWhenGoalNotMet ==
    (deployed /\ now > deadline /\ total < goal) =>
        \A u \in Users :
            deposits[u] > 0 => (refunded[u] = deposits[u] \/ SomeCallSucceeds)

\* C3  Proportional refund: a successful claimRefund by c pays c exactly
\* floor(deposits[c] * refundPool / total), in tokens, and the refunds paid
\* so far never exceed refundPool.
C3_ProportionalRefund ==
    /\ \A u \in Users :
        /\ claimCount[u] > 0 =>
              refunded[u] = (deposits[u] * refundPool) \div total
        /\ claimCount[u] = 0 => refunded[u] = 0
        /\ balanceOf[u] = InitialSupply - deposits[u] + refunded[u]
    /\ SumOver(refunded, Users) <= refundPool

\* reached: two contributors have been paid and rounding left dust behind
C3_Witness ==
    /\ \E u, v \in Users :
        /\ u # v
        /\ claimCount[u] = 1 /\ claimCount[v] = 1
        /\ refunded[u] > 0 /\ refunded[v] > 0
    /\ Depositors = {u \in Users : claimCount[u] = 1}
    /\ SumOver(refunded, Users) < refundPool

\* C4  Finalize success: finalize(x) by the creator on an open instance with
\* goal <= x <= total succeeds before and after the deadline, sets closed and
\* success, records finalAmount = x and refundPool = total - x, moves x
\* tokens from the escrow to the beneficiary; at most one finalize succeeds.
C4_FinalizeSucceeds ==
    [][ /\ finalizeCount' <= 1
        /\ \A x \in FinalArgs :
            (finalize(creator, x) /\ ~closed /\ goal <= x /\ x <= total) =>
                /\ last'.result = OK
                /\ closed' /\ success'
                /\ finalAmount' = x
                /\ refundPool' = total - x
                /\ balanceOf' = [balanceOf EXCEPT ![Escrow] = @ - x,
                                                  ![beneficiary] = @ + x]
                /\ finalizeCount' = 1 ]_vars

\* reached: a finalize after the deadline that left a refund pool
C4_Witness ==
    /\ last.op = "finalize" /\ last.result = OK
    /\ now > deadline
    /\ closed /\ success /\ finalAmount = last.arg
    /\ refundPool > 0
    /\ balanceOf[Ben] = finalAmount

\* C5  Single finalize: after one finalize has succeeded every later finalize
\* by the creator fails with AlreadyClosed and leaves the books and all
\* balances as they were.
C5_SingleFinalize ==
    [][ \A x \in FinalArgs :
            (finalize(creator, x) /\ finalizeCount >= 1) =>
                (last'.result = AlreadyClosed /\ Untouched) ]_vars

\* reached: a second finalize by the creator, for an amount that would pass
C5_Witness ==
    /\ last.op = "finalize" /\ last.sender = creator
    /\ last.result = AlreadyClosed
    /\ finalizeCount = 1
    /\ goal <= last.arg /\ last.arg <= balanceOf[Escrow]

\* C6  No double claim: after a successful claimRefund by c (a zero refund
\* included) every later claimRefund by c fails with NoDeposit and moves no
\* tokens; nobody is paid a proportional refund twice.
C6_NoDoubleClaim ==
    [][ \A u \in Users :
            /\ claimCount'[u] <= 1
            /\ (claimRefund(u) /\ claimCount[u] >= 1) =>
                  (last'.result = NoDeposit /\ Untouched) ]_vars

\* reached: a repeated claim after a claim that paid nothing
C6_Witness ==
    /\ last.op = "claimRefund" /\ last.result = NoDeposit
    /\ claimCount[last.sender] = 1
    /\ deposits[last.sender] > 0
    /\ refunded[last.sender] = 0

\* C7  Only the creator finalizes: a finalize by anyone else fails with
\* NotCreator and changes nothing, whatever the amount, the total and the
\* closed flag.
C7_OnlyCreatorFinalizes ==
    [][ \A u \in Users, x \in FinalArgs :
            (finalize(u, x) /\ u # creator) =>
                (last'.result = NotCreator /\ Untouched) ]_vars

\* reached: a stranger's finalize on a closed instance
C7_Witness ==
    /\ last.op = "finalize" /\ last.sender # creator
    /\ last.result = NotCreator
    /\ closed

\* C8 as written: a finalize by the creator on an open instance with
\* finalAmount < goal fails with BelowGoal whatever the total is.
C8_BelowGoalAlways ==
    [][ \A x \in FinalArgs :
            (finalize(creator, x) /\ ~closed /\ x < goal) =>
                last'.result = BelowGoal ]_vars

\* C8 amended: such a call always fails and changes nothing; the error is
\* BelowGoal when finalAmount <= total and ExceedsTotal when
\* finalAmount > total.
C8_BelowGoalFails ==
    [][ \A x \in FinalArgs :
            (finalize(creator, x) /\ ~closed /\ x < goal) =>
                /\ last'.result = IF x > total THEN ExceedsTotal ELSE BelowGoal
                /\ Untouched ]_vars

\* reached: the pool holds the goal and the creator asks for less
C8_Witness ==
    /\ last.op = "finalize" /\ last.sender = creator
    /\ last.result = BelowGoal
    /\ ~closed /\ total >= goal /\ last.arg > 0

\* C9 as written: every contribute after the deadline fails with
\* PastDeadline whatever else has happened, and changes nothing.
C9_PastDeadlineAlways ==
    [][ \A u \in Users, a \in 0..MaxAmount :
            (contribute(u, a) /\ now > deadline) =>
                (last'.result = PastDeadline /\ Untouched) ]_vars

\* C9 amended: every contribute after the deadline fails and changes
\* nothing; the error is PastDeadline on an open instance and AlreadyClosed
\* on a closed one.
C9_PastDeadlineFails ==
    [][ \A u \in Users, a \in 0..MaxAmount :
            (contribute(u, a) /\ now > deadline) =>
                /\ last'.result = IF closed THEN AlreadyClosed ELSE PastDeadline
                /\ Untouched ]_vars

\* reached: a funded contribution refused after the deadline, goal met
C9_Witness ==
    /\ last.op = "contribute" /\ last.result = PastDeadline
    /\ now > deadline /\ ~closed
    /\ last.arg > 0 /\ balanceOf[last.sender] >= last.arg
    /\ total >= goal

\* C10  Contribution acceptance: a contribute(a) by a caller holding at least
\* a tokens succeeds exactly when the instance is open, now <= deadline,
\* a > 0 and (minContribution = 0 or a >= minContribution); on success
\* deposits[c] and total grow by a and a tokens move from c to the escrow.
C10_ContributionAccepted ==
    [][ \A u \in Users, a \in 0..MaxAmount :
            (contribute(u, a) /\ balanceOf[u] >= a) =>
                /\ last'.result = OK <=>
                      /\ ~closed
                      /\ now <= deadline
                      /\ a > 0
                      /\ (minContribution = 0 \/ a >= minContribution)
                /\ last'.result = OK =>
                      /\ deposits' = [deposits EXCEPT ![u] = @ + a]
                      /\ total' = total + a
                      /\ balanceOf' = [balanceOf EXCEPT ![u] = @ - a,
                                                        ![Escrow] = @ + a] ]_vars

\* reached: a second contribution of the same caller, made at the deadline
C10_Witness ==
    /\ last.op = "contribute" /\ last.result = OK
    /\ now = deadline
    /\ deposits[last.sender] > last.arg
    /\ total > deposits[last.sender]

\* C11  Minimum enforcement: on an open instance, up to the deadline, with
\* minContribution > 0, contribute fails with BelowMinimum for every non-zero
\* amount below the minimum and with InvalidParams for amount 0, whatever the
\* caller holds, and changes nothing.
C11_MinimumEnforced ==
    [][ \A u \in Users, a \in 0..MaxAmount :
            (/\ contribute(u, a)
             /\ ~closed /\ now <= deadline
             /\ minContribution > 0 /\ a < minContribution) =>
                /\ last'.result = IF a = 0 THEN InvalidParams ELSE BelowMinimum
                /\ Untouched ]_vars

\* reached: a non-zero amount under the minimum, refused at the deadline
C11_Witness ==
    /\ last.op = "contribute" /\ last.result = BelowMinimum
    /\ last.arg > 0 /\ last.arg < minContribution
    /\ ~closed /\ now = deadline

\* C12  Mutate-then-transfer: when contribute, finalize or claimRefund invokes
\* the token transfer, every write of the call has been made, so the books the
\* token sees during the transfer are the books the call ends with.
C12_MutateThenTransfer ==
    [][ (status = ENTERED /\ status' = NOT_ENTERED) => books' = books ]_vars

\* C13  Reentrancy guard: while the transfer of a call is in progress, a call
\* of contribute, finalize, claimRefund or refund made from inside it is
\* rejected and changes nothing; the call in progress stays the only one.
C13_NestedCallRejected ==
    [][ (\E op \in EntryPoints, u \in Users, a \in NestedArgs :
            nestedCall(op, u, a)) =>
                /\ nested' = ReentrantCall
                /\ UNCHANGED <<config, books, balanceOf, history, status, frame>> ]_vars

\* reached: a call refused while finalize's transfer to the beneficiary runs
C13_Witness ==
    /\ status = ENTERED /\ frame.op = "finalize"
    /\ nested = ReentrantCall
    /\ Depositors # {}

\* C14  Atomic failure: a contribute, finalize, claimRefund or refund that
\* fails a precondition, or whose transfer fails, leaves the configuration,
\* the books and every token balance as they were.
C14_AtomicFailure ==
    [][ (CallStep /\ last'.result # OK) => Untouched ]_vars

\* reached: a claim by a caller without a deposit, refused on a closed
\* instance that still owes a refund
C14_Witness ==
    /\ last.op = "claimRefund" /\ last.result = NoDeposit
    /\ deposits[last.sender] = 0 /\ ~refundClaimed[last.sender]
    /\ closed /\ refundPool > 0

\* C15  Dust bound: once every contributor with a positive deposit has
\* claimed, refundPool minus the refunds paid lies between 0 and the number
\* of those contributors minus 1.
C15_DustBound ==
    (closed /\ \A u \in Depositors : claimCount[u] >= 1) =>
        LET dust == refundPool - SumOver(refunded, Users) IN
            /\ 0 <= dust
            /\ dust <= Cardinality(Depositors) - 1

\* reached: three contributors have claimed and the dust is 2
C15_Witness ==
    /\ closed
    /\ Cardinality(Depositors) = 3
    /\ \A u \in Depositors : claimCount[u] = 1
    /\ refundPool - SumOver(refunded, Users) = 2

\* C16  Closed-state invariant: closed implies goal <= finalAmount <= total
\* and refundPool = total - finalAmount >= 0; open implies finalAmount = 0
\* and refundPool = 0.
C16_ClosedState ==
    /\ closed =>
          /\ goal <= finalAmount /\ finalAmount <= total
          /\ refundPool = total - finalAmount
          /\ refundPool >= 0
    /\ ~closed => (finalAmount = 0 /\ refundPool = 0)

\* reached: closed above the goal with a refund pool left
C16_Witness ==
    /\ closed
    /\ finalAmount > goal
    /\ refundPool > 0

\* C17  Closing is one-way: once closed is true it stays true, and
\* finalAmount, refundPool, total and every deposit keep their values under
\* every later call.
C17_ClosedFreezes ==
    [][ closed =>
            /\ closed'
            /\ finalAmount' = finalAmount
            /\ refundPool' = refundPool
            /\ total' = total
            /\ deposits' = deposits ]_vars

\* reached: a funded contribution refused on a closed instance before the
\* deadline
C17_Witness ==
    /\ closed /\ now <= deadline
    /\ last.op = "contribute" /\ last.result = AlreadyClosed
    /\ last.arg > 0 /\ balanceOf[last.sender] >= last.arg

\* C18  The total never decreases; a successful claimRefund leaves total and
\* the caller's deposit as they were.
C18_TotalMonotone ==
    [][ /\ total' >= total
        /\ \A u \in Users :
              (claimRefund(u) /\ last'.result = OK) =>
                  (total' = total /\ deposits'[u] = deposits[u]) ]_vars

\* reached: a claim that paid tokens, the deposit still on the books
C18_Witness ==
    /\ last.op = "claimRefund" /\ last.result = OK
    /\ refunded[last.sender] > 0
    /\ deposits[last.sender] > 0
    /\ total = SumOver(deposits, Users)

\* balances of every holder outside S are as before
OnlyBalancesOf(S) == \A h \in Holders \ S : balanceOf'[h] = balanceOf[h]

\* C19  Scoped mutation: a successful contribute by c changes only
\* deposits[c], total and the balances of c and the escrow; a successful
\* claimRefund by c only refundClaimed[c] and the balances of c and the
\* escrow; a successful finalize only closed, success, finalAmount,
\* refundPool and the balances of the escrow and the beneficiary.  No call
\* changes another identity's deposits or refundClaimed entry.
C19_ScopedMutation ==
    [][ /\ (ContributeStep /\ last'.result = OK) =>
              /\ UNCHANGED <<config, closed, success, finalAmount,
                             refundPool, refundClaimed>>
              /\ OnlyBalancesOf({last'.sender, Escrow})
        /\ (ClaimRefundStep /\ last'.result = OK) =>
              /\ UNCHANGED <<config, closed, success, finalAmount,
                             refundPool, total, deposits>>
              /\ OnlyBalancesOf({last'.sender, Escrow})
        /\ (FinalizeStep /\ last'.result = OK) =>
              /\ UNCHANGED <<config, total, deposits, refundClaimed>>
              /\ OnlyBalancesOf({Escrow, beneficiary})
        /\ CallStep =>
              \A v \in Users \ {last'.sender} :
                  /\ deposits'[v] = deposits[v]
                  /\ refundClaimed'[v] = refundClaimed[v] ]_vars

\* reached: a contribution by someone other than the creator, next to the
\* deposit of another contributor
C19_Witness ==
    /\ last.op = "contribute" /\ last.result = OK
    /\ last.sender # creator
    /\ \E v \in Users \ {last.sender} : deposits[v] > 0

\* C20  claimRefund failures: on an open instance claimRefund fails with
\* NotClosed; on a closed one a caller whose deposit is 0 fails with
\* NoDeposit; no refundClaimed flag is set and no tokens move.
C20_ClaimRefundFailures ==
    [][ \A u \in Users :
            /\ (claimRefund(u) /\ ~closed) =>
                  (last'.result = NotClosed /\ Untouched)
            /\ (claimRefund(u) /\ closed /\ deposits[u] = 0) =>
                  (last'.result = NoDeposit /\ Untouched) ]_vars

\* reached: a depositor's claim refused on an open instance that has met
\* its goal
C20_Witness ==
    /\ last.op = "claimRefund" /\ last.result = NotClosed
    /\ deposits[last.sender] > 0
    /\ total >= goal /\ ~closed

\* C21  Zero-value refund: when the refund computed for a contributor with a
\* positive deposit is 0 (refundPool = 0, or deposits[c] * refundPool < total),
\* the contributor's claimRefund on the closed instance still succeeds, sets
\* refundClaimed[c], moves no tokens and emits no Refunded event.
C21_ZeroRefund ==
    [][ (/\ ClaimRefundStep
         /\ closed /\ ~refundClaimed[last'.sender]
         /\ deposits[last'.sender] > 0
         /\ (refundPool = 0 \/ deposits[last'.sender] * refundPool < total)) =>
            /\ last'.result = OK
            /\ refundClaimed'[last'.sender]
            /\ balanceOf' = balanceOf
            /\ emitted' = <<>> ]_vars

\* reached: a claim that rounded to 0 although a refund pool exists
C21_Witness ==
    /\ last.op = "claimRefund" /\ last.result = OK
    /\ refundPool > 0
    /\ deposits[last.sender] > 0 /\ refundClaimed[last.sender]
    /\ refunded[last.sender] = 0
    /\ emitted = <<>>

C23_ImmutableParameters ==
    [][ /\ (last'.op = "constructor" /\ last'.result = OK) =>
              emitted'[Len(emitted')] =
                  Initialized(creator', token', beneficiary', goal', deadline',
                              minContribution')
        /\ deployed =>
              /\ deployed'
              /\ UNCHANGED <<token, creator, beneficiary, goal, deadline,
                             minContribution>> ]_vars

\* reached: the parameters of the creation after a contribution, the
\* finalization past the deadline and a refund claim
C23_Witness ==
    /\ closed /\ now > deadline
    /\ \E u \in Users : claimCount[u] = 1
    /\ token = "token" /\ creator = Deployer /\ beneficiary = Ben
    /\ goal = MaxGoal /\ deadline = MaxDeadline /\ minContribution = MaxMin

\* C24  calculateRefund agrees with claimRefund: calculateRefund(u) is the
\* amount that a claimRefund by u in the same state moves from the escrow to
\* u, and it is 0 wherever that claimRefund fails.
C24_CalculateRefundAgrees ==
    [][ ClaimRefundStep =>
            /\ balanceOf'[last'.sender] - balanceOf[last'.sender]
                    = calculateRefund(last'.sender)
            /\ balanceOf[Escrow] - balanceOf'[Escrow] = calculateRefund(last'.sender)
            /\ last'.result # OK => calculateRefund(last'.sender) = 0 ]_vars

\* reached: one contributor has been paid and computes 0 from now on, another
\* still computes a positive refund
C24_Witness ==
    /\ last.op = "claimRefund" /\ last.result = OK
    /\ refunded[last.sender] > 0
    /\ calculateRefund(last.sender) = 0
    /\ \E v \in Users : calculateRefund(v) > 0

\* C25  getRefundStatus(u): originalDeposit is deposits[u] in every state;
\* before finalization a positive deposit gives hasClaimed = FALSE and
\* refundAmount = the deposit, no deposit gives hasClaimed = TRUE and
\* refundAmount = 0; after finalization hasClaimed = refundClaimed[u] and
\* refundAmount = floor(deposits[u] * refundPool / total) if u has not
\* claimed, else 0.
C25_RefundStatus ==
    deployed =>
        \A u \in Users :
            LET st == getRefundStatus(u) IN
                /\ st.originalDeposit = deposits[u]
                /\ ~closed =>
                      IF deposits[u] > 0
                      THEN ~st.hasClaimed /\ st.refundAmount = deposits[u]
                      ELSE st.hasClaimed /\ st.refundAmount = 0
                /\ closed =>
                      /\ st.hasClaimed = refundClaimed[u]
                      /\ st.refundAmount =
                            IF refundClaimed[u] THEN 0
                            ELSE (deposits[u] * refundPool) \div total

\* reached: a closed instance with a claimed depositor, an unclaimed one
\* owed a positive amount, and an identity that never deposited
C25_Witness ==
    /\ closed
    /\ \E u \in Users : getRefundStatus(u).hasClaimed /\ deposits[u] > 0
    /\ \E u \in Users : ~getRefundStatus(u).hasClaimed
                           /\ getRefundStatus(u).refundAmount > 0
    /\ \E u \in Users : ~getRefundStatus(u).hasClaimed
                           /\ getRefundStatus(u).originalDeposit = 0

\* C26  canFinalize is exact: canFinalize() called by c is true exactly when
\* some finalize(x) by c would succeed, that is exactly when the instance is
\* open, c is the creator and total >= goal; isOpen() is true exactly when
\* the instance is not closed and now <= deadline.
C26_ViewsExact ==
    deployed =>
        /\ \A c \in Users :
              /\ canFinalize(c) <=> (\E x \in FinalArgs : FinalizeCheck(c, x) = OK)
              /\ canFinalize(c) <=> (~closed /\ c = creator /\ total >= goal)
        /\ isOpen <=> (~closed /\ now <= deadline)

\* reached: past the deadline the creator can finalize an instance that is
\* no longer open, and nobody else can
C26_Witness ==
    /\ deployed /\ ~isOpen /\ ~closed
    /\ canFinalize(creator)
    /\ total > goal
    /\ \A c \in Users \ {creator} : ~canFinalize(c)

C28_SequentialIds ==
    [][ /\ nextId = Len(registrations)
        /\ nextId' = Len(registrations')
        /\ \A u \in Users, n \in Names, e \in {NoAddr, Escrow, OtherEscrow},
              m \in MetaURIs :
                createProject(u, n, e, m) =>
                    IF e = NoAddr
                    THEN /\ created'.result = EscrowZero
                         /\ UNCHANGED <<nextId, projects, registrations>>
                    ELSE /\ created'.result = OK
                         /\ created'.id = Len(registrations) + 1
                         /\ nextId' = nextId + 1 ]_vars

\* reached: the same creator has registered the same escrow twice and the
\* second registration returned 2
C28_Witness ==
    /\ nextId = 2 /\ created = [result |-> OK, id |-> 2]
    /\ registrations[1].creator = registrations[2].creator
    /\ registrations[1].escrow = registrations[2].escrow

\* lookups in the current state: every id from 1 to nextId gives what the
\* id-th successful registration supplied, every other id "not found"
LookupMatches ==
    \A id \in 0..(MaxProjects + 1) :
        IF 1 <= id /\ id <= nextId
        THEN getProject(id) = [result |-> OK, project |-> registrations[id]]
        ELSE getProject(id).result = NotFound

\* C29  Directory entries are immutable and append-only: getProject(id) for
\* 1 <= id <= nextId returns the creator, escrow, name and metadata pointer
\* of the id-th successful registration and keeps returning them after later
\* registrations; getProject(0) and getProject(id) for id > nextId fail with
\* "not found".
C29_EntriesImmutable ==
    [][ /\ LookupMatches
        /\ LookupMatches'
        /\ \A id \in 1..nextId :
              /\ projects'[id] = projects[id]
              /\ registrations'[id] = registrations[id] ]_vars

\* reached: the first entry is still returned after a different second
\* registration, and the next identifier is not found
C29_Witness ==
    /\ nextId = MaxProjects
    /\ registrations[1] # registrations[nextId]
    /\ getProject(1) = [result |-> OK, project |-> registrations[1]]
    /\ getProject(nextId + 1).result = NotFound
    /\ getProject(0).result = NotFound

\* C30  Instance isolation: with two instances on the same token and with
\* the same contributors, a contribute, finalize or claimRefund on one
\* instance leaves the storage of the other instance as it was and moves no
\* tokens held by the other instance.
C30_InstanceIsolation ==
    [][ (ContributeStep \/ FinalizeStep \/ ClaimRefundStep) =>
            /\ other' = other
            /\ focus' = focus
            /\ balanceOf'[OtherEscrow] = balanceOf[OtherEscrow] ]_vars

\* reached: a contribution to the open instance by a contributor of both,
\* while the other instance is closed and holds its refund pool
C30_Witness ==
    /\ last.op = "contribute" /\ last.result = OK
    /\ ~closed /\ other.closed
    /\ other.deposits[last.sender] > 0
    /\ other.refundPool > 0
    /\ balanceOf[OtherEscrow] = other.refundPool
    /\ balanceOf[Escrow] = total

\* C31  Event log matches transitions: a successful contribute emits exactly
\* one Contributed(contributor, amount, total after the contribution); the
\* one successful finalize emits exactly one Finalized(true, finalAmount,
\* total at that moment); claimRefund emits Refunded(user, amount) exactly
\* when it transfers a positive amount; a failed call emits nothing.
C31_EventLog ==
    [][ /\ (ContributeStep /\ last'.result = OK) =>
              emitted' = <<Contributed(last'.sender, last'.arg, total')>>
        /\ (FinalizeStep /\ last'.result = OK) =>
              /\ emitted' = <<Finalized(TRUE, finalAmount', total')>>
              /\ finalizeCount' = 1
        /\ ClaimRefundStep =>
              LET paid == balanceOf'[last'.sender] - balanceOf[last'.sender] IN
                  emitted' = IF paid > 0
                             THEN <<Refunded(last'.sender, paid)>>
                             ELSE <<>>
        /\ (CallStep /\ last'.result # OK) => emitted' = <<>> ]_vars

\* reached: the event of a second contribution carries the sum of both
C31_Witness ==
    /\ last.op = "contribute" /\ last.result = OK
    /\ emitted = <<Contributed(last.sender, last.arg, total)>>
    /\ total > last.arg

\* the step is a plain native-currency transfer to the instance, or a call
\* of a function it does not define
ReceiveStep == last'.op = "receive" /\ receive(last'.sender, last'.arg)
FallbackStep == last'.op = "fallback" /\ fallback(last'.sender, last'.arg)

\* C32  Direct native-currency payments are rejected: in every state a plain
\* native-currency transfer to the instance, or a call of a function it does
\* not define, fails and leaves the escrow's storage, the token balances and
\* the native-currency balances as they were.
C32_NativeRejected ==
    [][ (ReceiveStep \/ FallbackStep) =>
            /\ last'.result = Reverted
            /\ Untouched
            /\ etherOf' = etherOf ]_vars

\* reached: a payment refused by a closed instance; the sender still holds
\* the amount and the instance holds none
C32_Witness ==
    /\ last.op = "receive" /\ last.result = Reverted
    /\ last.arg > 0
    /\ closed
    /\ etherOf[last.sender] = MaxValue
    /\ etherOf[Escrow] = 0

\* C33  Solvency: the escrow's token balance is total in every open state
\* and refundPool minus the refunds paid in every closed state, so in a
\* closed state every contributor with a positive deposit who has not
\* claimed can claim successfully, whatever the others have claimed.
C33_Solvency ==
    deployed =>
        /\ ~closed => balanceOf[Escrow] = total
        /\ closed =>
              /\ balanceOf[Escrow] = refundPool - SumOver(refunded, Users)
              /\ \A u \in Users :
                    (deposits[u] > 0 /\ ~refundClaimed[u]) =>
                        ClaimRefundCheck(u) = OK

\* reached: one contributor has been paid, two others have yet to claim
C33_Witness ==
    /\ closed
    /\ \E u \in Users : refundClaimed[u] /\ refunded[u] > 0
    /\ Cardinality({u \in Depositors : ~refundClaimed[u]}) = 2
    /\ balanceOf[Escrow] > 0 /\ balanceOf[Escrow] < refundPool

C35_ContributeFinalizeRace ==
    [][ /\ (ContributeStep /\ closed) =>
              (last'.result = AlreadyClosed /\ Untouched)
        /\ (ContributeStep /\ last'.result = OK) =>
              (~closed /\ total' = total + last'.arg)
        /\ (FinalizeStep /\ last'.result = OK) =>
              refundPool' = SumOver(deposits, Users) - last'.arg
        /\ (ClaimRefundStep /\ last'.result = OK) =>
              balanceOf'[last'.sender] - balanceOf[last'.sender] =
                  (deposits[last'.sender] * refundPool)
                      \div SumOver(deposits, Users)
        /\ (/\ FinalizeStep /\ last'.sender = creator
            /\ ~closed /\ now <= deadline
            /\ goal <= last'.arg /\ last'.arg <= total) =>
              last'.result = OK ]_vars

\* reached: before the deadline a newcomer's funded contribution arrives
\* after the finalize and is refused
C35_Witness ==
    /\ last.op = "contribute" /\ last.result = AlreadyClosed
    /\ now <= deadline /\ finalizeCount = 1
    /\ deposits[last.sender] = 0
    /\ last.arg > 0 /\ balanceOf[last.sender] >= last.arg
    /\ refundPool > 0

\* the refund of u by the formula, from the values frozen at the finalize
Share(u) == (deposits[u] * refundPool) \div total

\* C36  Claim-order independence: after finalize the amount a contributor
\* receives from claimRefund does not depend on who else has claimed or in
\* which order, and the escrow's state and the balances after any sequence
\* of claims depend only on the set of contributors who have claimed.
C36_ClaimOrderIndependent ==
    closed =>
        /\ \A u \in Users :
              /\ refundClaimed[u] <=> claimCount[u] = 1
              /\ refunded[u] = IF refundClaimed[u] THEN Share(u) ELSE 0
              /\ balanceOf[u] = InitialSupply - deposits[u] + refunded[u]
        /\ balanceOf[Escrow] =
              refundPool - SumOver([u \in Users |->
                                      IF refundClaimed[u] THEN Share(u) ELSE 0], Users)

\* reached: two contributors have claimed and been paid while a third
\* depositor has not claimed
C36_Witness ==
    /\ closed
    /\ Cardinality({u \in Users : refundClaimed[u] /\ refunded[u] > 0}) = 2
    /\ \E w \in Depositors : ~refundClaimed[w] /\ Share(w) > 0

\* C37  Error precedence: contribute reports the first of AlreadyClosed,
\* PastDeadline, InvalidParams (amount 0), BelowMinimum that applies;
\* finalize the first of NotCreator, AlreadyClosed, ExceedsTotal, BelowGoal
\* (so the creator's finalize with finalAmount > total on an open instance
\* fails with ExceedsTotal); claimRefund reports NotClosed before NoDeposit.
C37_ErrorPrecedence ==
    [][ /\ ContributeStep =>
              IF closed THEN last'.result = AlreadyClosed
              ELSE IF now > deadline THEN last'.result = PastDeadline
              ELSE IF last'.arg = 0 THEN last'.result = InvalidParams
              ELSE IF minContribution > 0 /\ last'.arg < minContribution
                   THEN last'.result = BelowMinimum
              ELSE last'.result \in {OK, TransferFailed}
        /\ FinalizeStep =>
              IF last'.sender # creator THEN last'.result = NotCreator
              ELSE IF closed THEN last'.result = AlreadyClosed
              ELSE IF last'.arg > total THEN last'.result = ExceedsTotal
              ELSE IF last'.arg < goal THEN last'.result = BelowGoal
              ELSE last'.result = OK
        /\ (ClaimRefundStep /\ ~closed) => last'.result = NotClosed ]_vars

\* reached: the creator asks an open instance for more than the total and
\* less than the goal, and is told ExceedsTotal
C37_Witness ==
    /\ last.op = "finalize" /\ last.sender = creator
    /\ ~closed
    /\ last.arg > total /\ last.arg < goal
    /\ last.result = ExceedsTotal

\* what rounding leaves in the escrow once everybody has claimed
Dust == refundPool - SumOver([u \in Users |-> Share(u)], Users)

====
